---- MODULE Spec2Model ----
(***************************************************************************)
(* Life-and-work claim registry (ink! contract life_and_work, src/lib.rs). *)
(*                                                                         *)
(* The contract storage, the seven state-changing claim messages, the     *)
(* reward program messages and the host environment they use (caller,     *)
(* contract balance, native transfer, event log).  Every message runs to  *)
(* completion; a message that returns Err is reverted by the ink!         *)
(* dispatcher, so nothing it wrote, emitted or transferred remains.       *)
(***************************************************************************)
EXTENDS Integers, Sequences, FiniteSets, TLC

\* ------------------------------------------------------------------ bounds
\* Messages of a run of the free exploration (after a scenario's prefix).
MaxCalls == 3
\* Messages explored after the capacity scenario has filled one index.
CapExtra == 3
\* Messages explored after the endorser scenario has filled one list.
EndorseExtra == 3

\* Claim messages explored after the payout scenario has set the program up.
PayoutCalls == 3

\* Messages explored by the interval scenario after its two set-up messages.
IntervalCalls == 6
SearchCalls == 3
ZeroCalls == 3
FullExtra == 2

\* ------------------------------------------------------- program constants
\* AccountId::from([0x0; 32]): default claimant and initial reward_root.
ZeroAccount == 0
\* An index that already holds more than this many claims refuses a new one.
MaxAccountClaims == 490
\* An endorser is stored only while the list is shorter than this.
MaxEndorsers == 490
\* Funds the reward program never pays out (existential deposit margin).
ReservedFloor == 10
\* reward_interval set by the constructor.
InitialInterval == 1000000

\* ------------------------------------------------------------ value domains
\* Accounts that send messages in the free exploration.
Callers == {1, 2}

\* Claim payloads and links are byte vectors.
Contents == {<<66>>, <<66, 82>>}
Links == {<<76>>}

\* claimtype codes written by the five claim messages.
WorkHistory == 1
Education == 2
Expertise == 3
GoodDeed == 4
IntellectualProperty == 5
ClaimTypes == {WorkHistory, Education, Expertise, GoodDeed, IntellectualProperty}
KeywordTypes == {WorkHistory, Education, Expertise, GoodDeed}

\* SCALE encoding of the tuple (AccountId, Vec<u8>): the fixed-width account,
\* then the length-prefixed bytes.  An account is one symbol here.
scale_encode(claimant, claim_contents) ==
    <<claimant, Len(claim_contents)>> \o claim_contents

\* Sha2x256 is collision resistant: a digest is represented by the byte string
\* it was computed from, so two digests are equal exactly when their inputs are.
Sha2x256(bytes) == bytes

hash_encoded(claimant, claim_contents) ==
    Sha2x256(scale_encode(claimant, claim_contents))

\* A 256-bit value that is the digest of no (account, contents) tuple.
RawHash(n) == <<-1, n>>
\* Hash::default()
ZeroHash == RawHash(0)

\* ------------------------------------------------------------------- state
VARIABLES
    claim_hashes,      \* StorageVec<Hash>: every accepted claim id, in order
    claim_details,     \* Mapping<Hash, Details>
    account_claims,    \* the five Mapping<AccountId, Claims>, by claimtype
    reward_root_set,
    reward_root,
    reward_interval,
    reward_amount,
    reward_on,
    reward_balance,
    reward_payouts,
    claim_counter,
    contract_balance,  \* env().balance()
    events,            \* the chain's event log
    transfers,         \* native transfers made by the contract, in order
    last,              \* the last message: its name, caller, arguments, result
    calls              \* messages dispatched so far

vars == <<claim_hashes, claim_details, account_claims, reward_root_set,
          reward_root, reward_interval, reward_amount, reward_on,
          reward_balance, reward_payouts, claim_counter, contract_balance,
          events, transfers, last, calls>>

\* The contract (and the part of the environment a message can change) as one
\* value, so that a message body is a function from it to its outcome.
Self ==
    [claim_hashes |-> claim_hashes, claim_details |-> claim_details,
     account_claims |-> account_claims, reward_root_set |-> reward_root_set,
     reward_root |-> reward_root, reward_interval |-> reward_interval,
     reward_amount |-> reward_amount, reward_on |-> reward_on,
     reward_balance |-> reward_balance, reward_payouts |-> reward_payouts,
     claim_counter |-> claim_counter, balance |-> contract_balance,
     events |-> events, transfers |-> transfers]

\* ------------------------------------------------------------- data model
DefaultDetails ==
    [claimtype |-> 0, claimant |-> ZeroAccount, claim |-> <<>>,
     claim_id |-> ZeroHash, endorser_count |-> 0, link |-> <<>>,
     show |-> TRUE, endorsers |-> <<>>]

DefaultRewardSettings ==
    [reward_on |-> 0, reward_root_set |-> 0, reward_root |-> ZeroAccount,
     reward_interval |-> 0, reward_amount |-> 0, reward_balance |-> 0,
     reward_payouts |-> 0, claim_counter |-> 0]

\* Events share one shape; the fields an event does not carry are defaults.
ClaimMadeName(claimtype) ==
    CASE claimtype = WorkHistory -> "ClaimMadeWorkHistory"
      [] claimtype = Education -> "ClaimMadeEducation"
      [] claimtype = Expertise -> "ClaimMadeExpertise"
      [] claimtype = GoodDeed -> "ClaimMadeGoodDeed"
      [] OTHER -> "ClaimMadeIntellectualProperty"

ClaimMade(claimtype, claimant, claim, claim_id) ==
    [event |-> ClaimMadeName(claimtype), claimant |-> claimant, claim |-> claim,
     claim_id |-> claim_id, endorser |-> ZeroAccount, reward |-> 0]

ClaimEndorsed(claimant, claim_id, endorser) ==
    [event |-> "ClaimEndorsed", claimant |-> claimant, claim |-> <<>>,
     claim_id |-> claim_id, endorser |-> endorser, reward |-> 0]

AccountRewardedLifeAndWork(claimant, reward) ==
    [event |-> "AccountRewardedLifeAndWork", claimant |-> claimant,
     claim |-> <<>>, claim_id |-> ZeroHash, endorser |-> ZeroAccount,
     reward |-> reward]

\* ------------------------------------------------------ storage primitives
\* Mapping::contains
contains(map, key) == key \in DOMAIN map

\* Mapping::get(key).unwrap_or_default() on claim_details
get_details(map, key) == IF contains(map, key) THEN map[key] ELSE DefaultDetails

\* Mapping::get(account).unwrap_or_default().claims on an account index
get_claims(map, account) == IF contains(map, account) THEN map[account] ELSE <<>>

\* Mapping::try_insert / Mapping::insert: writes or overwrites one key.
insert(map, key, value) ==
    [k \in DOMAIN map \cup {key} |-> IF k = key THEN value ELSE map[k]]

\* u128 arithmetic of the reward program.  The ceiling 2^128 - 1 of
\* saturating_add lies far beyond every value explored; the floor of
\* saturating_sub is reached.
saturating_add(a, b) == a + b
saturating_sub(a, b) == IF a >= b THEN a - b ELSE 0

\* A remainder that is zero for a zero divisor.
checked_rem_euclid_total(a, b) == IF b = 0 THEN 0 ELSE a % b

\* u128::checked_rem_euclid: None for a zero divisor.  -1 stands for None.
checked_rem_euclid(a, b) == IF b = 0 THEN -1 ELSE a % b

\* A message body's outcome: the contract after it, and what it returned.
Outcome(self, result) == [self |-> self, result |-> result]

\* env().transfer(dest, value): fails when the contract cannot cover the value
\* or the runtime refuses the transfer (host_ok = FALSE).
transfer(self, dest, value, host_ok) ==
    IF value > self.balance \/ ~host_ok
    THEN [ok |-> FALSE, self |-> self]
    ELSE [ok |-> TRUE,
          self |-> [self EXCEPT !.balance = @ - value,
                                !.transfers = Append(@, [to |-> dest, value |-> value])]]

\* A dispatcher that does not take back a change of reward_on.
ink_message_keeps_switch(self, out) ==
    IF out.result = "Ok" THEN out.self ELSE [self EXCEPT !.reward_on = out.self.reward_on]

\* A dispatcher that keeps what a message wrote whatever it returned.
ink_message_commits(self, out) == out.self

\* #[ink(message)] returning Result: the dispatcher reverts the call when the
\* message returns Err, so storage, events and transfers stay as before it.
ink_message(self, out) == IF out.result = "Ok" THEN out.self ELSE self

\* ---------------------------------------------------------- claim messages
\* A new record that counts its claimant as an endorsement.
new_details_counted(claimtype, caller, claim, claim_hash, link) ==
    [claimtype |-> claimtype, claimant |-> caller, claim |-> claim,
     claim_id |-> claim_hash, endorser_count |-> 1, link |-> link,
     show |-> TRUE, endorsers |-> <<caller>>]

\* The Details record a claim message stores for a new claim.
new_details(claimtype, caller, claim, claim_hash, link) ==
    [claimtype |-> claimtype, claimant |-> caller, claim |-> claim,
     claim_id |-> claim_hash, endorser_count |-> 0, link |-> link,
     show |-> TRUE, endorsers |-> <<caller>>]

\* A capacity check that lets one more claim in.
too_many_claims_late(currentclaims) == Len(currentclaims) > MaxAccountClaims + 1

\* "if currentclaims.claims.len() > 490 { return Err(Error::DataTooLarge) }"
too_many_claims(currentclaims) == Len(currentclaims) > MaxAccountClaims

\* Reward conditions that do not look at reward_balance.
reward_due_unfunded(self) ==
    /\ self.reward_on = 1
    /\ self.balance > saturating_add(self.reward_amount, ReservedFloor)
    /\ checked_rem_euclid(self.claim_counter, self.reward_interval) = 0

\* The reward conditions checked after the claim counter was advanced.
reward_due(self) ==
    /\ self.reward_on = 1
    /\ self.reward_balance > self.reward_amount
    /\ self.balance > saturating_add(self.reward_amount, ReservedFloor)
    /\ checked_rem_euclid(self.claim_counter, self.reward_interval) = 0

\* A reward program that reads the conditions before it advances the counter.
reward_program_stale_count(self, caller, host_ok) ==
    LET counted == [self EXCEPT !.claim_counter = saturating_add(@, 1)]
        payout == counted.reward_amount
        sent == transfer(counted, caller, payout, host_ok)
    IN  IF reward_due(self)
        THEN IF ~sent.ok
             THEN Outcome(counted, "PayoutFailed")
             ELSE Outcome(
                    [sent.self EXCEPT
                       !.reward_balance = saturating_sub(@, payout),
                       !.reward_payouts = saturating_add(@, payout),
                       !.events = Append(@, AccountRewardedLifeAndWork(caller, payout))],
                    "Ok")
        ELSE Outcome(counted, "Ok")

\* REWARD PROGRAM ACTIONS at the end of each claim message.
reward_program(self, caller, host_ok) ==
    LET counted == [self EXCEPT !.claim_counter = saturating_add(@, 1)]
        payout == counted.reward_amount
        sent == transfer(counted, caller, payout, host_ok)
    IN  IF reward_due(counted)
        THEN IF ~sent.ok
             THEN Outcome(counted, "PayoutFailed")
             ELSE Outcome(
                    [sent.self EXCEPT
                       !.reward_balance = saturating_sub(@, payout),
                       !.reward_payouts = saturating_add(@, payout),
                       !.events = Append(@, AccountRewardedLifeAndWork(caller, payout))],
                    "Ok")
        ELSE Outcome(counted, "Ok")

\* A store_claim that puts the new id in front of the ledger.
store_claim_in_front(self, caller, claimtype, claim_hash, claim, link) ==
    [self EXCEPT
       !.claim_details =
           insert(@, claim_hash, new_details(claimtype, caller, claim, claim_hash, link)),
       !.claim_hashes = <<claim_hash>> \o @,
       !.account_claims[claimtype] =
           insert(@, caller, Append(get_claims(@, caller), claim_hash)),
       !.events = Append(@, ClaimMade(claimtype, caller, claim, claim_hash))]

\* A store_claim that leaves the caller's index as it was.
store_claim_unindexed(self, caller, claimtype, claim_hash, claim, link) ==
    [self EXCEPT
       !.claim_details =
           insert(@, claim_hash, new_details(claimtype, caller, claim, claim_hash, link)),
       !.claim_hashes = Append(@, claim_hash),
       !.events = Append(@, ClaimMade(claimtype, caller, claim, claim_hash))]

\* A store_claim that files every claim in the expertise index.
store_claim_one_index(self, caller, claimtype, claim_hash, claim, link) ==
    [self EXCEPT
       !.claim_details =
           insert(@, claim_hash, new_details(claimtype, caller, claim, claim_hash, link)),
       !.claim_hashes = Append(@, claim_hash),
       !.account_claims[Expertise] =
           insert(@, caller, Append(get_claims(@, caller), claim_hash)),
       !.events = Append(@, ClaimMade(claimtype, caller, claim, claim_hash))]

\* The storage writes and the event of an accepted claim.
store_claim(self, caller, claimtype, claim_hash, claim, link) ==
    [self EXCEPT
       !.claim_details =
           insert(@, claim_hash, new_details(claimtype, caller, claim, claim_hash, link)),
       !.claim_hashes = Append(@, claim_hash),
       !.account_claims[claimtype] =
           insert(@, caller, Append(get_claims(@, caller), claim_hash)),
       !.events = Append(@, ClaimMade(claimtype, caller, claim, claim_hash))]

\* A make_claim that looks for a duplicate only in the caller's index for the
\* claimtype it files under.
make_claim_own_index(self, caller, claimtype, claim_hash, claim, link, host_ok) ==
    IF too_many_claims(get_claims(self.account_claims[claimtype], caller))
    THEN Outcome(self, "DataTooLarge")
    ELSE IF \E i \in 1..Len(get_claims(self.account_claims[claimtype], caller)) :
                get_claims(self.account_claims[claimtype], caller)[i] = claim_hash
    THEN Outcome(self, "DuplicateClaim")
    ELSE reward_program(store_claim(self, caller, claimtype, claim_hash, claim, link),
                        caller, host_ok)

\* A make_claim that looks for a duplicate before it looks at the size of
\* the caller's index.
make_claim_dedup_first(self, caller, claimtype, claim_hash, claim, link, host_ok) ==
    IF contains(self.claim_details, claim_hash)
    THEN Outcome(self, "DuplicateClaim")
    ELSE IF too_many_claims(get_claims(self.account_claims[claimtype], caller))
    THEN Outcome(self, "DataTooLarge")
    ELSE reward_program(store_claim(self, caller, claimtype, claim_hash, claim, link),
                        caller, host_ok)

\* The flow the five claim messages share; they differ in the claimtype code,
\* the account index they use, the event they emit, and where the claim id
\* comes from.
make_claim(self, caller, claimtype, claim_hash, claim, link, host_ok) ==
    IF too_many_claims(get_claims(self.account_claims[claimtype], caller))
    THEN Outcome(self, "DataTooLarge")
    ELSE IF contains(self.claim_details, claim_hash)
    THEN Outcome(self, "DuplicateClaim")
    ELSE reward_program(store_claim(self, caller, claimtype, claim_hash, claim, link),
                        caller, host_ok)

make_claim_expertise(self, caller, keywords, link, host_ok) ==
    make_claim(self, caller, Expertise, hash_encoded(caller, keywords),
               keywords, link, host_ok)

make_claim_workhistory(self, caller, keywords, link, host_ok) ==
    make_claim(self, caller, WorkHistory, hash_encoded(caller, keywords),
               keywords, link, host_ok)

make_claim_education(self, caller, keywords, link, host_ok) ==
    make_claim(self, caller, Education, hash_encoded(caller, keywords),
               keywords, link, host_ok)

make_claim_gooddeed(self, caller, keywords, link, host_ok) ==
    make_claim(self, caller, GoodDeed, hash_encoded(caller, keywords),
               keywords, link, host_ok)

\* An intellectual property message that stores the supplied hash without
\* looking it up first.
make_claim_intellectualproperty_unchecked(self, caller, keywords, link, file_hash, host_ok) ==
    IF too_many_claims(get_claims(self.account_claims[IntellectualProperty], caller))
    THEN Outcome(self, "DataTooLarge")
    ELSE reward_program(
           store_claim(self, caller, IntellectualProperty, file_hash, keywords, link),
           caller, host_ok)

make_claim_intellectualproperty(self, caller, keywords, link, file_hash, host_ok) ==
    make_claim(self, caller, IntellectualProperty, file_hash, keywords, link, host_ok)

\* ------------------------------------------------ endorsement, visibility
\* A capacity test that lets one more endorser in.
room_for_endorser_late(endorsers) == Len(endorsers) <= MaxEndorsers

\* "if current_details.endorsers.len() < 490"
room_for_endorser(endorsers) == Len(endorsers) < MaxEndorsers

\* An endorsement that puts the caller in front of the list.
endorsed_details_in_front(current_details, claim_id, caller) ==
    [claimtype |-> current_details.claimtype,
     claimant |-> current_details.claimant,
     claim |-> current_details.claim,
     claim_id |-> claim_id,
     endorser_count |-> saturating_add(current_details.endorser_count, 1),
     link |-> current_details.link,
     show |-> current_details.show,
     endorsers |-> <<caller>> \o current_details.endorsers]

\* An endorsement that leaves the count alone.
endorsed_details_uncounted(current_details, claim_id, caller) ==
    [claimtype |-> current_details.claimtype,
     claimant |-> current_details.claimant,
     claim |-> current_details.claim,
     claim_id |-> claim_id,
     endorser_count |-> current_details.endorser_count,
     link |-> current_details.link,
     show |-> current_details.show,
     endorsers |-> Append(current_details.endorsers, caller)]

\* The record written back by endorse_claim.
endorsed_details(current_details, claim_id, caller) ==
    [claimtype |-> current_details.claimtype,
     claimant |-> current_details.claimant,
     claim |-> current_details.claim,
     claim_id |-> claim_id,
     endorser_count |-> saturating_add(current_details.endorser_count, 1),
     link |-> current_details.link,
     show |-> current_details.show,
     endorsers |-> Append(current_details.endorsers, caller)]

\* An endorse_claim that does not look the caller up in the endorser list.
endorse_claim_unchecked(self, caller, claim_id) ==
    IF contains(self.claim_details, claim_id)
    THEN LET current_details == get_details(self.claim_details, claim_id)
             stored ==
                 IF room_for_endorser(current_details.endorsers)
                 THEN [self EXCEPT !.claim_details =
                          insert(@, claim_id,
                                 endorsed_details(current_details, claim_id, caller))]
                 ELSE self
         IN  Outcome(
               [stored EXCEPT !.events =
                   Append(@, ClaimEndorsed(current_details.claimant, claim_id, caller))],
               "Ok")
    ELSE Outcome(self, "NonexistentClaim")

endorse_claim(self, caller, claim_id) ==
    IF contains(self.claim_details, claim_id)
    THEN LET current_details == get_details(self.claim_details, claim_id)
             stored ==
                 IF room_for_endorser(current_details.endorsers)
                 THEN [self EXCEPT !.claim_details =
                          insert(@, claim_id,
                                 endorsed_details(current_details, claim_id, caller))]
                 ELSE self
         IN  IF \E i \in 1..Len(current_details.endorsers) :
                    current_details.endorsers[i] = caller
             THEN Outcome(self, "DuplicateEndorsement")
             ELSE Outcome(
                    [stored EXCEPT !.events =
                        Append(@, ClaimEndorsed(current_details.claimant, claim_id, caller))],
                    "Ok")
    ELSE Outcome(self, "NonexistentClaim")

\* A visibility change that also clears the record's link.
shown_details_relinked(details, claim_id, set_to_show) ==
    [claimtype |-> details.claimtype,
     claimant |-> details.claimant,
     claim |-> details.claim,
     claim_id |-> claim_id,
     endorser_count |-> details.endorser_count,
     link |-> <<>>,
     show |-> set_to_show,
     endorsers |-> details.endorsers]

\* A visibility change that flips the flag whatever value was asked for.
shown_details_toggled(details, claim_id, set_to_show) ==
    [claimtype |-> details.claimtype,
     claimant |-> details.claimant,
     claim |-> details.claim,
     claim_id |-> claim_id,
     endorser_count |-> details.endorser_count,
     link |-> details.link,
     show |-> ~details.show,
     endorsers |-> details.endorsers]

\* The record written back by show_or_hide_claim.
shown_details(details, claim_id, set_to_show) ==
    [claimtype |-> details.claimtype,
     claimant |-> details.claimant,
     claim |-> details.claim,
     claim_id |-> claim_id,
     endorser_count |-> details.endorser_count,
     link |-> details.link,
     show |-> set_to_show,
     endorsers |-> details.endorsers]

\* A show_or_hide_claim that takes the request from any account.
show_or_hide_claim_by_anyone(self, caller, claim_id, set_to_show) ==
    LET details == get_details(self.claim_details, claim_id)
    IN  Outcome(
          [self EXCEPT !.claim_details =
              insert(@, claim_id, shown_details(details, claim_id, set_to_show))],
          "Ok")

show_or_hide_claim(self, caller, claim_id, set_to_show) ==
    LET details == get_details(self.claim_details, claim_id)
    IN  IF details.claimant = caller
        THEN Outcome(
               [self EXCEPT !.claim_details =
                   insert(@, claim_id, shown_details(details, claim_id, set_to_show))],
               "Ok")
        ELSE Outcome(self, "CallerNotOwner")

\* ---------------------------------------------------------- reward messages
\* A set_reward_roots that does not record that the root was set.
set_reward_roots_unlatched(self, caller, newroot) ==
    IF self.reward_root_set # 1 \/ self.reward_root = caller
    THEN Outcome([self EXCEPT !.reward_root = newroot], "Ok")
    ELSE Outcome(self, "PermissionDenied")

set_reward_roots(self, caller, newroot) ==
    IF self.reward_root_set # 1 \/ self.reward_root = caller
    THEN Outcome([self EXCEPT !.reward_root = newroot, !.reward_root_set = 1], "Ok")
    ELSE Outcome(self, "PermissionDenied")

\* A set_reward that takes the settings from any account.
set_reward_by_anyone(self, caller, on, interval, amount) ==
    Outcome([self EXCEPT !.reward_on = on, !.reward_interval = interval,
                         !.reward_amount = amount], "Ok")

set_reward(self, caller, on, interval, amount) ==
    IF self.reward_root = caller
    THEN Outcome([self EXCEPT !.reward_on = on, !.reward_interval = interval,
                              !.reward_amount = amount], "Ok")
    ELSE Outcome(self, "PermissionDenied")

\* Payable: the environment has credited transferred_value to the contract
\* before the body runs (and takes it back when the call is reverted).
add_reward_balance(self, caller, transferred_value) ==
    LET paid_in == [self EXCEPT !.balance = @ + transferred_value]
    IN  IF paid_in.reward_root = caller
        THEN Outcome([paid_in EXCEPT !.reward_balance =
                          saturating_add(@, transferred_value)], "Ok")
        ELSE Outcome(paid_in, "PermissionDenied")

\* A shut_down_reward that refunds the root and leaves the program on.
shut_down_reward_stays_on(self, caller, host_ok) ==
    IF self.reward_root = caller
    THEN LET payout == saturating_sub(self.reward_balance, ReservedFloor)
             sent == transfer(self, caller, payout, host_ok)
         IN  IF self.balance > ReservedFloor /\ self.reward_balance > 0
             THEN IF ~sent.ok
                  THEN Outcome(self, "PayoutFailed")
                  ELSE Outcome(sent.self, "Ok")
             ELSE Outcome(self, "ZeroBalance")
    ELSE Outcome(self, "PermissionDenied")

shut_down_reward(self, caller, host_ok) ==
    IF self.reward_root = caller
    THEN LET off == [self EXCEPT !.reward_on = 0]
             payout == saturating_sub(off.reward_balance, ReservedFloor)
             sent == transfer(off, caller, payout, host_ok)
         IN  IF off.balance > ReservedFloor /\ off.reward_balance > 0
             THEN IF ~sent.ok
                  THEN Outcome(off, "PayoutFailed")
                  ELSE Outcome(sent.self, "Ok")
             ELSE Outcome(off, "ZeroBalance")
    ELSE Outcome(self, "PermissionDenied")

\* ----------------------------------------------------------------- queries
\* The records of a list of claim ids; an id with no record gives the default.
resume_items(self, idvec) ==
    [i \in 1..Len(idvec) |-> get_details(self.claim_details, idvec[i])]

\* A get_resume that lists the expertise claims before the others.
get_resume_expertise_first(self, owner) ==
    resume_items(self, get_claims(self.account_claims[Expertise], owner))
    \o resume_items(self, get_claims(self.account_claims[WorkHistory], owner))
    \o resume_items(self, get_claims(self.account_claims[Education], owner))
    \o resume_items(self, get_claims(self.account_claims[GoodDeed], owner))
    \o resume_items(self, get_claims(self.account_claims[IntellectualProperty], owner))

get_resume(self, owner) ==
    resume_items(self, get_claims(self.account_claims[WorkHistory], owner))
    \o resume_items(self, get_claims(self.account_claims[Education], owner))
    \o resume_items(self, get_claims(self.account_claims[Expertise], owner))
    \o resume_items(self, get_claims(self.account_claims[GoodDeed], owner))
    \o resume_items(self, get_claims(self.account_claims[IntellectualProperty], owner))

get_full_details(self, claim_id) == get_details(self.claim_details, claim_id)

get_endorsers(self, claim_id) == get_details(self.claim_details, claim_id).endorsers

\* String::from_utf8: the bytes are text when they are a sequence of
\* well-formed UTF-8 scalar values (1 to 4 bytes each, no overlong form, no
\* surrogate, nothing above U+10FFFF).
Continuation(byte) == byte >= 128 /\ byte <= 191

\* The width of the scalar value that starts at position i; 0 when none does.
Utf8Width(bytes, i) ==
    LET at(k) == IF i + k <= Len(bytes) THEN bytes[i + k] ELSE 0
    IN  CASE at(0) <= 127 -> 1
          [] at(0) \in 194..223 /\ Continuation(at(1)) -> 2
          [] at(0) = 224 /\ at(1) \in 160..191 /\ Continuation(at(2)) -> 3
          [] at(0) \in (225..236) \cup (238..239)
             /\ Continuation(at(1)) /\ Continuation(at(2)) -> 3
          [] at(0) = 237 /\ at(1) \in 128..159 /\ Continuation(at(2)) -> 3
          [] at(0) = 240 /\ at(1) \in 144..191
             /\ Continuation(at(2)) /\ Continuation(at(3)) -> 4
          [] at(0) \in 241..243 /\ Continuation(at(1))
             /\ Continuation(at(2)) /\ Continuation(at(3)) -> 4
          [] at(0) = 244 /\ at(1) \in 128..143
             /\ Continuation(at(2)) /\ Continuation(at(3)) -> 4
          [] OTHER -> 0

RECURSIVE Utf8From(_, _)
Utf8From(bytes, i) ==
    IF i > Len(bytes)
    THEN TRUE
    ELSE /\ Utf8Width(bytes, i) > 0
         /\ Utf8From(bytes, i + Utf8Width(bytes, i))

\* A decoding that takes any bytes as text.
from_utf8_unchecked(bytes) == bytes

\* String::from_utf8(bytes).unwrap_or_default(): the empty string for bytes
\* that are not text.
from_utf8(bytes) == IF Utf8From(bytes, 1) THEN bytes ELSE <<>>

\* str::contains with a string pattern: the pattern occurs at some position.
str_contains(string, pattern) ==
    \E i \in 0..(Len(string) - Len(pattern)) :
        SubSeq(string, i + 1, i + Len(pattern)) = pattern

get_matching_claims(self, keywords) ==
    LET searchstring == from_utf8(keywords)
        matches(resumeitem) == str_contains(from_utf8(resumeitem.claim), searchstring)
    IN  SelectSeq(resume_items(self, self.claim_hashes), matches)

verify_account(self, owner) ==
    <<Len(get_claims(self.account_claims[WorkHistory], owner)),
      Len(get_claims(self.account_claims[Education], owner)),
      Len(get_claims(self.account_claims[Expertise], owner)),
      Len(get_claims(self.account_claims[GoodDeed], owner)),
      Len(get_claims(self.account_claims[IntellectualProperty], owner))>>

\* The settings of the contract as get_reward_settings reports them.
settings(self) ==
    [reward_on |-> self.reward_on, reward_root_set |-> self.reward_root_set,
     reward_root |-> self.reward_root, reward_interval |-> self.reward_interval,
     reward_amount |-> self.reward_amount, reward_balance |-> self.reward_balance,
     reward_payouts |-> self.reward_payouts, claim_counter |-> self.claim_counter]

\* A get_reward_settings that answers every caller.
get_reward_settings_open(self, caller) == settings(self)

get_reward_settings(self, caller) ==
    IF self.reward_root = caller THEN settings(self) ELSE DefaultRewardSettings

\* ------------------------------------------------------------------ system
NoArgs == <<0, 0, 0>>

\* The state the constructor leaves.
Init ==
    /\ claim_hashes = <<>>
    /\ claim_details = <<>>
    /\ account_claims = [t \in ClaimTypes |-> <<>>]
    /\ reward_root_set = 0
    /\ reward_root = ZeroAccount
    /\ reward_interval = InitialInterval
    /\ reward_amount = 0
    /\ reward_on = 0
    /\ reward_balance = 0
    /\ reward_payouts = 0
    /\ claim_counter = 0
    /\ contract_balance = 0
    /\ events = <<>>
    /\ transfers = <<>>
    /\ last = [op |-> "new", caller |-> ZeroAccount, claim_id |-> ZeroHash,
               claim |-> <<>>, link |-> <<>>, args |-> NoArgs, result |-> "Ok"]
    /\ calls = 0

\* One message call: the body's outcome passes the dispatcher and becomes the
\* next state; the call and its result are recorded in last.
Call(op, caller, claim_id, claim, link, args, out) ==
    LET after == ink_message(Self, out)
    IN  /\ claim_hashes' = after.claim_hashes
        /\ claim_details' = after.claim_details
        /\ account_claims' = after.account_claims
        /\ reward_root_set' = after.reward_root_set
        /\ reward_root' = after.reward_root
        /\ reward_interval' = after.reward_interval
        /\ reward_amount' = after.reward_amount
        /\ reward_on' = after.reward_on
        /\ reward_balance' = after.reward_balance
        /\ reward_payouts' = after.reward_payouts
        /\ claim_counter' = after.claim_counter
        /\ contract_balance' = after.balance
        /\ events' = after.events
        /\ transfers' = after.transfers
        /\ last' = [op |-> op, caller |-> caller, claim_id |-> claim_id,
                    claim |-> claim, link |-> link, args |-> args,
                    result |-> out.result]
        /\ calls' = calls + 1

MakeClaimExpertise(caller, keywords, link, host_ok) ==
    Call("make_claim_expertise", caller, hash_encoded(caller, keywords), keywords,
         link, NoArgs, make_claim_expertise(Self, caller, keywords, link, host_ok))

MakeClaimWorkHistory(caller, keywords, link, host_ok) ==
    Call("make_claim_workhistory", caller, hash_encoded(caller, keywords), keywords,
         link, NoArgs, make_claim_workhistory(Self, caller, keywords, link, host_ok))

MakeClaimEducation(caller, keywords, link, host_ok) ==
    Call("make_claim_education", caller, hash_encoded(caller, keywords), keywords,
         link, NoArgs, make_claim_education(Self, caller, keywords, link, host_ok))

MakeClaimGoodDeed(caller, keywords, link, host_ok) ==
    Call("make_claim_gooddeed", caller, hash_encoded(caller, keywords), keywords,
         link, NoArgs, make_claim_gooddeed(Self, caller, keywords, link, host_ok))

MakeClaimIntellectualProperty(caller, keywords, link, file_hash, host_ok) ==
    Call("make_claim_intellectualproperty", caller, file_hash, keywords, link, NoArgs,
         make_claim_intellectualproperty(Self, caller, keywords, link, file_hash, host_ok))

EndorseClaim(caller, claim_id) ==
    Call("endorse_claim", caller, claim_id, <<>>, <<>>, NoArgs,
         endorse_claim(Self, caller, claim_id))

ShowOrHideClaim(caller, claim_id, set_to_show) ==
    Call("show_or_hide_claim", caller, claim_id, <<>>, <<>>,
         <<IF set_to_show THEN 1 ELSE 0, 0, 0>>,
         show_or_hide_claim(Self, caller, claim_id, set_to_show))

SetRewardRoots(caller, newroot) ==
    Call("set_reward_roots", caller, ZeroHash, <<>>, <<>>, <<newroot, 0, 0>>,
         set_reward_roots(Self, caller, newroot))

SetReward(caller, on, interval, amount) ==
    Call("set_reward", caller, ZeroHash, <<>>, <<>>, <<on, interval, amount>>,
         set_reward(Self, caller, on, interval, amount))

AddRewardBalance(caller, transferred_value) ==
    Call("add_reward_balance", caller, ZeroHash, <<>>, <<>>,
         <<transferred_value, 0, 0>>,
         add_reward_balance(Self, caller, transferred_value))

ShutDownReward(caller, host_ok) ==
    Call("shut_down_reward", caller, ZeroHash, <<>>, <<>>, NoArgs,
         shut_down_reward(Self, caller, host_ok))

\* ------------------------------------------------------- free exploration
\* Every message, from every caller, over small input sets.
FileHashes == {RawHash(1)} \cup {hash_encoded(a, <<66>>) : a \in Callers}
Hashes == {RawHash(1)} \cup {hash_encoded(a, c) : a \in Callers, c \in Contents}
RewardInputs == {<<1, 1, 3>>, <<1, 0, 3>>, <<0, 2, 3>>}
FundValues == {20}

AnyExpertise ==
    \E caller \in Callers, keywords \in Contents, link \in Links, host_ok \in BOOLEAN :
        MakeClaimExpertise(caller, keywords, link, host_ok)
AnyWorkHistory ==
    \E caller \in Callers, keywords \in Contents, link \in Links, host_ok \in BOOLEAN :
        MakeClaimWorkHistory(caller, keywords, link, host_ok)
AnyEducation ==
    \E caller \in Callers, keywords \in Contents, link \in Links, host_ok \in BOOLEAN :
        MakeClaimEducation(caller, keywords, link, host_ok)
AnyGoodDeed ==
    \E caller \in Callers, keywords \in Contents, link \in Links, host_ok \in BOOLEAN :
        MakeClaimGoodDeed(caller, keywords, link, host_ok)
AnyIntellectualProperty ==
    \E caller \in Callers, keywords \in Contents, link \in Links,
       file_hash \in FileHashes, host_ok \in BOOLEAN :
        MakeClaimIntellectualProperty(caller, keywords, link, file_hash, host_ok)
AnyEndorse ==
    \E caller \in Callers, claim_id \in Hashes : EndorseClaim(caller, claim_id)
AnyShowOrHide ==
    \E caller \in Callers, claim_id \in Hashes, set_to_show \in BOOLEAN :
        ShowOrHideClaim(caller, claim_id, set_to_show)
AnySetRewardRoots ==
    \E caller \in Callers, newroot \in Callers : SetRewardRoots(caller, newroot)
AnySetReward ==
    \E caller \in Callers, in \in RewardInputs : SetReward(caller, in[1], in[2], in[3])
AnyAddRewardBalance ==
    \E caller \in Callers, transferred_value \in FundValues :
        AddRewardBalance(caller, transferred_value)
AnyShutDownReward ==
    \E caller \in Callers, host_ok \in BOOLEAN : ShutDownReward(caller, host_ok)

Free == calls < MaxCalls

Next ==
    \/ Free /\ AnyExpertise
    \/ Free /\ AnyWorkHistory
    \/ Free /\ AnyEducation
    \/ Free /\ AnyGoodDeed
    \/ Free /\ AnyIntellectualProperty
    \/ Free /\ AnyEndorse
    \/ Free /\ AnyShowOrHide
    \/ Free /\ AnySetRewardRoots
    \/ Free /\ AnySetReward
    \/ Free /\ AnyAddRewardBalance
    \/ Free /\ AnyShutDownReward

Spec == Init /\ [][Next]_vars

\* --------------------------------------------------------- reward scenario
\* Account 1 takes the root, switches the program on (a reward of 3 on every
\* claim) and funds it with 20; every message is explored from there.
FundedFree == calls >= 3 /\ calls < 3 + MaxCalls

NextReward ==
    \/ calls = 0 /\ SetRewardRoots(1, 1)
    \/ calls = 1 /\ SetReward(1, 1, 1, 3)
    \/ calls = 2 /\ AddRewardBalance(1, 20)
    \/ FundedFree /\ AnyExpertise
    \/ FundedFree /\ AnyWorkHistory
    \/ FundedFree /\ AnyEducation
    \/ FundedFree /\ AnyGoodDeed
    \/ FundedFree /\ AnyIntellectualProperty
    \/ FundedFree /\ AnyEndorse
    \/ FundedFree /\ AnyShowOrHide
    \/ FundedFree /\ AnySetRewardRoots
    \/ FundedFree /\ AnySetReward
    \/ FundedFree /\ AnyAddRewardBalance
    \/ FundedFree /\ AnyShutDownReward

SpecReward == Init /\ [][NextReward]_vars

\* ------------------------------------------------------- capacity scenario
\* Account 1 files MaxAccountClaims expertise claims, each with new keywords;
\* then accounts 1 and 2 send CapExtra claim messages of any kind, with
\* keywords (or a file hash) already stored or new.
CapContent(n) == <<n \div 256, n % 256>>
CapContents == {CapContent(1), CapContent(calls + 1)}
CapFileHashes == {hash_encoded(1, CapContent(1)), RawHash(calls + 1)}
CapFree == calls >= MaxAccountClaims /\ calls < MaxAccountClaims + CapExtra

NextCap ==
    \/ calls < MaxAccountClaims
       /\ MakeClaimExpertise(1, CapContent(calls + 1), <<76>>, TRUE)
    \/ CapFree /\ \E caller \in Callers, keywords \in CapContents :
                    MakeClaimExpertise(caller, keywords, <<76>>, TRUE)
    \/ CapFree /\ \E caller \in Callers, keywords \in CapContents :
                    MakeClaimWorkHistory(caller, keywords, <<76>>, TRUE)
    \/ CapFree /\ \E caller \in Callers, keywords \in CapContents :
                    MakeClaimEducation(caller, keywords, <<76>>, TRUE)
    \/ CapFree /\ \E caller \in Callers, keywords \in CapContents :
                    MakeClaimGoodDeed(caller, keywords, <<76>>, TRUE)
    \/ CapFree /\ \E caller \in Callers, keywords \in CapContents,
                     file_hash \in CapFileHashes :
                    MakeClaimIntellectualProperty(caller, keywords, <<76>>,
                                                  file_hash, TRUE)

SpecCap == Init /\ [][NextCap]_vars

\* --------------------------------------------------------- payout scenario
\* Account 1 takes the root, configures the program (on or off; a reward on
\* every claim, on every second claim, or an interval of zero; a reward of 3,
\* or of 25, more than the program will hold) and funds it with 15 or 20;
\* the contract's account may receive a plain transfer of 20 besides; then
\* accounts 1 and 2 send PayoutCalls claim messages, each a new claim.
PayoutSettings == {<<1, 1, 3>>, <<1, 2, 3>>, <<1, 0, 3>>, <<0, 1, 3>>, <<1, 1, 25>>}
PayoutFunds == {15, 20}
Endowments == {20}

\* A transfer to the contract's account that calls no message: env().balance()
\* grows, the storage does not.
Endow(value) ==
    /\ contract_balance' = contract_balance + value
    /\ last' = [op |-> "endowment", caller |-> ZeroAccount, claim_id |-> ZeroHash,
                claim |-> <<>>, link |-> <<>>, args |-> <<value, 0, 0>>,
                result |-> "Ok"]
    /\ UNCHANGED <<claim_hashes, claim_details, account_claims, reward_root_set,
                   reward_root, reward_interval, reward_amount, reward_on,
                   reward_balance, reward_payouts, claim_counter, events,
                   transfers, calls>>

PayoutFree == calls >= 3 /\ calls < 3 + PayoutCalls

NextPayout ==
    \/ calls = 0 /\ SetRewardRoots(1, 1)
    \/ calls = 1 /\ \E in \in PayoutSettings : SetReward(1, in[1], in[2], in[3])
    \/ calls = 2 /\ \E value \in PayoutFunds : AddRewardBalance(1, value)
    \/ calls = 3 /\ last.op = "add_reward_balance"
       /\ \E value \in Endowments : Endow(value)
    \/ PayoutFree /\ \E caller \in Callers, host_ok \in BOOLEAN :
                       MakeClaimExpertise(caller, CapContent(calls), <<76>>, host_ok)
    \/ PayoutFree /\ \E caller \in Callers, host_ok \in BOOLEAN :
                       MakeClaimWorkHistory(caller, CapContent(calls), <<76>>, host_ok)
    \/ PayoutFree /\ \E caller \in Callers, host_ok \in BOOLEAN :
                       MakeClaimEducation(caller, CapContent(calls), <<76>>, host_ok)
    \/ PayoutFree /\ \E caller \in Callers, host_ok \in BOOLEAN :
                       MakeClaimGoodDeed(caller, CapContent(calls), <<76>>, host_ok)
    \/ PayoutFree /\ \E caller \in Callers, host_ok \in BOOLEAN :
                       MakeClaimIntellectualProperty(caller, CapContent(calls), <<76>>,
                                                     RawHash(calls), host_ok)

SpecPayout == Init /\ [][NextPayout]_vars

\* ------------------------------------------------------- interval scenario
\* Account 1 takes the root and funds the program with 40; account 2 may
\* file one claim while the program is still off; account 1 then switches
\* the program on with a reward of 3 on every 5th claim, and accounts 1 and 2
\* send claim messages of any kind, each a new claim.
EarlyClaim == hash_encoded(2, CapContent(0))
IntervalFree == reward_on = 1 /\ calls < 2 + IntervalCalls

NextInterval ==
    \/ calls = 0 /\ SetRewardRoots(1, 1)
    \/ calls = 1 /\ AddRewardBalance(1, 40)
    \/ calls = 2 /\ MakeClaimGoodDeed(2, CapContent(0), <<76>>, TRUE)
    \/ calls \in {2, 3} /\ reward_on = 0 /\ SetReward(1, 1, 5, 3)
    \/ IntervalFree /\ \E caller \in Callers, host_ok \in BOOLEAN :
                         MakeClaimExpertise(caller, CapContent(calls), <<76>>, host_ok)
    \/ IntervalFree /\ \E caller \in Callers, host_ok \in BOOLEAN :
                         MakeClaimWorkHistory(caller, CapContent(calls), <<76>>, host_ok)
    \/ IntervalFree /\ \E caller \in Callers, host_ok \in BOOLEAN :
                         MakeClaimEducation(caller, CapContent(calls), <<76>>, host_ok)
    \/ IntervalFree /\ \E caller \in Callers, host_ok \in BOOLEAN :
                         MakeClaimGoodDeed(caller, CapContent(calls), <<76>>, host_ok)
    \/ IntervalFree /\ \E caller \in Callers, host_ok \in BOOLEAN :
                         MakeClaimIntellectualProperty(caller, CapContent(calls), <<76>>,
                                                       RawHash(calls), host_ok)

SpecInterval == Init /\ [][NextInterval]_vars

\* ------------------------------------------------------- endorser scenario
\* Account 1 files one claim, of any kind; accounts 2, 3, ... endorse it in
\* turn until its endorser list holds MaxEndorsers - 1 accounts; then
\* EndorseExtra messages (endorsements by old and new accounts, visibility
\* changes) are explored.
EndorsedClaim == hash_encoded(1, <<66>>)
EndorserPool == {1, 2} \cup (MaxEndorsers .. MaxEndorsers + EndorseExtra)
EndorseFree == calls >= MaxEndorsers - 1 /\ calls < MaxEndorsers - 1 + EndorseExtra

NextEndorsers ==
    \/ calls = 0 /\ MakeClaimExpertise(1, <<66>>, <<76>>, TRUE)
    \/ calls = 0 /\ MakeClaimWorkHistory(1, <<66>>, <<76>>, TRUE)
    \/ calls = 0 /\ MakeClaimEducation(1, <<66>>, <<76>>, TRUE)
    \/ calls = 0 /\ MakeClaimGoodDeed(1, <<66>>, <<76>>, TRUE)
    \/ calls = 0 /\ MakeClaimIntellectualProperty(1, <<66>>, <<76>>, EndorsedClaim, TRUE)
    \/ calls > 0 /\ calls < MaxEndorsers - 1
       /\ EndorseClaim(calls + 1, EndorsedClaim)
    \/ EndorseFree /\ \E caller \in EndorserPool, claim_id \in {EndorsedClaim, RawHash(1)} :
                        EndorseClaim(caller, claim_id)
    \/ EndorseFree /\ \E caller \in {1, 2}, set_to_show \in BOOLEAN :
                        ShowOrHideClaim(caller, EndorsedClaim, set_to_show)

SpecEndorsers == Init /\ [][NextEndorsers]_vars

\* --------------------------------------------------------- search scenario
\* Claims whose keywords are text ("BR", "P", an e with an acute accent) and
\* keywords that are not UTF-8 (a B followed by the byte 255).
SearchContents == {<<66, 82>>, <<80>>, <<66, 255>>, <<195, 169>>}
SearchHashes == {RawHash(1)} \cup {hash_encoded(a, c) : a \in Callers, c \in SearchContents}

SearchFree == calls < SearchCalls

NextSearch ==
    \/ SearchFree /\ \E caller \in Callers, keywords \in SearchContents, link \in Links :
           MakeClaimExpertise(caller, keywords, link, TRUE)
    \/ SearchFree /\ \E caller \in Callers, keywords \in SearchContents, link \in Links :
           MakeClaimEducation(caller, keywords, link, TRUE)
    \/ SearchFree /\ \E caller \in Callers, keywords \in SearchContents, link \in Links :
           MakeClaimIntellectualProperty(caller, keywords, link, RawHash(1), TRUE)
    \/ SearchFree /\ \E caller \in Callers, claim_id \in SearchHashes, set_to_show \in BOOLEAN :
           ShowOrHideClaim(caller, claim_id, set_to_show)

SpecSearch == Init /\ [][NextSearch]_vars

\* --------------------------------------------------- zero account scenario
\* Every message again, with the all-zero account among the callers: it is the
\* claimant of the default record and the reward root of a new contract.
ZeroCallers == {ZeroAccount, 1}
ZeroContents == {<<66>>}
ZeroHashes == {RawHash(1)} \cup {hash_encoded(a, c) : a \in ZeroCallers, c \in ZeroContents}

ZeroFree == calls < ZeroCalls

NextZero ==
    \/ ZeroFree /\ \E caller \in ZeroCallers, keywords \in ZeroContents, link \in Links,
                      host_ok \in BOOLEAN :
           MakeClaimExpertise(caller, keywords, link, host_ok)
    \/ ZeroFree /\ \E caller \in ZeroCallers, keywords \in ZeroContents, link \in Links,
                      host_ok \in BOOLEAN :
           MakeClaimWorkHistory(caller, keywords, link, host_ok)
    \/ ZeroFree /\ \E caller \in ZeroCallers, keywords \in ZeroContents, link \in Links,
                      host_ok \in BOOLEAN :
           MakeClaimEducation(caller, keywords, link, host_ok)
    \/ ZeroFree /\ \E caller \in ZeroCallers, keywords \in ZeroContents, link \in Links,
                      host_ok \in BOOLEAN :
           MakeClaimGoodDeed(caller, keywords, link, host_ok)
    \/ ZeroFree /\ \E caller \in ZeroCallers, keywords \in ZeroContents, link \in Links,
                      file_hash \in ZeroHashes, host_ok \in BOOLEAN :
           MakeClaimIntellectualProperty(caller, keywords, link, file_hash, host_ok)
    \/ ZeroFree /\ \E caller \in ZeroCallers, claim_id \in ZeroHashes :
           EndorseClaim(caller, claim_id)
    \/ ZeroFree /\ \E caller \in ZeroCallers, claim_id \in ZeroHashes, set_to_show \in BOOLEAN :
           ShowOrHideClaim(caller, claim_id, set_to_show)
    \/ ZeroFree /\ \E caller \in ZeroCallers, newroot \in ZeroCallers :
           SetRewardRoots(caller, newroot)
    \/ ZeroFree /\ \E caller \in ZeroCallers, in \in RewardInputs :
           SetReward(caller, in[1], in[2], in[3])
    \/ ZeroFree /\ \E caller \in ZeroCallers, transferred_value \in FundValues :
           AddRewardBalance(caller, transferred_value)
    \/ ZeroFree /\ \E caller \in ZeroCallers, host_ok \in BOOLEAN :
           ShutDownReward(caller, host_ok)

SpecZero == Init /\ [][NextZero]_vars

\* ----------------------------------------------------- full index scenario
\* Account 1 files claims of one claimtype, the claimtype of its first claim,
\* until its index for that claimtype holds one more than MaxAccountClaims;
\* then accounts 1 and 2 send FullExtra claim messages of any kind, with
\* keywords (or a file hash) already stored or new.
FullLength == MaxAccountClaims + 1
Filling(op) == calls < FullLength /\ (calls = 0 \/ last.op = op)
FullFree == calls >= FullLength /\ calls < FullLength + FullExtra
FullContents == {CapContent(1), CapContent(calls + 1)}
FullFileHashes == {RawHash(1), hash_encoded(1, CapContent(1)), RawHash(calls + 1)}

NextFull ==
    \/ Filling("make_claim_expertise")
       /\ MakeClaimExpertise(1, CapContent(calls + 1), <<76>>, TRUE)
    \/ Filling("make_claim_workhistory")
       /\ MakeClaimWorkHistory(1, CapContent(calls + 1), <<76>>, TRUE)
    \/ Filling("make_claim_education")
       /\ MakeClaimEducation(1, CapContent(calls + 1), <<76>>, TRUE)
    \/ Filling("make_claim_gooddeed")
       /\ MakeClaimGoodDeed(1, CapContent(calls + 1), <<76>>, TRUE)
    \/ Filling("make_claim_intellectualproperty")
       /\ MakeClaimIntellectualProperty(1, CapContent(calls + 1), <<76>>,
                                        RawHash(calls + 1), TRUE)
    \/ FullFree /\ \E caller \in Callers, keywords \in FullContents :
                     MakeClaimExpertise(caller, keywords, <<76>>, TRUE)
    \/ FullFree /\ \E caller \in Callers, keywords \in FullContents :
                     MakeClaimWorkHistory(caller, keywords, <<76>>, TRUE)
    \/ FullFree /\ \E caller \in Callers, keywords \in FullContents :
                     MakeClaimEducation(caller, keywords, <<76>>, TRUE)
    \/ FullFree /\ \E caller \in Callers, keywords \in FullContents :
                     MakeClaimGoodDeed(caller, keywords, <<76>>, TRUE)
    \/ FullFree /\ \E caller \in Callers, keywords \in FullContents,
                      file_hash \in FullFileHashes :
                     MakeClaimIntellectualProperty(caller, keywords, <<76>>,
                                                   file_hash, TRUE)

SpecFull == Init /\ [][NextFull]_vars

\* ------------------------------------------------------------- vocabulary
ClaimOps ==
    {"make_claim_workhistory", "make_claim_education", "make_claim_expertise",
     "make_claim_gooddeed", "make_claim_intellectualproperty"}
KeywordOps == ClaimOps \ {"make_claim_intellectualproperty"}

\* The claimtype a claim message files under.
TypeOf(op) ==
    CASE op = "make_claim_workhistory" -> WorkHistory
      [] op = "make_claim_education" -> Education
      [] op = "make_claim_expertise" -> Expertise
      [] op = "make_claim_gooddeed" -> GoodDeed
      [] OTHER -> IntellectualProperty

Range(seq) == {seq[i] : i \in 1..Len(seq)}

\* The account's index for one claimtype, before and after a step.
Index(t, a) == get_claims(account_claims[t], a)
IndexAfter(t, a) == get_claims(account_claims'[t], a)
Indexed(t) == DOMAIN account_claims[t] \cup DOMAIN account_claims'[t]

\* Everything a message can change, except the record of the call itself.
storage ==
    <<claim_hashes, claim_details, account_claims, reward_root_set, reward_root,
      reward_interval, reward_amount, reward_on, reward_balance, reward_payouts,
      claim_counter, contract_balance, events, transfers>>

\* The account has an accepted keyword claim with these keywords.
Submitted(a, c) ==
    \E f \in DOMAIN claim_details :
        /\ claim_details[f].claimtype \in KeywordTypes
        /\ claim_details[f].claimant = a
        /\ claim_details[f].claim = c

\* ------------------------------------------------------------------ claims
\* What an accepted claim message leaves behind: one new record, appended to
\* the ledger and to the caller's index for its claimtype, the counter
\* advanced by one, every other record and index list as before.
ClaimAccepted ==
    LET f == last'.claim_id
        a == last'.caller
        t == TypeOf(last'.op)
    IN  /\ last'.result = "Ok"
        /\ DOMAIN claim_details' = DOMAIN claim_details \cup {f}
        /\ claim_details'[f] =
               [claimtype |-> t, claimant |-> a, claim |-> last'.claim,
                claim_id |-> f, endorser_count |-> 0, link |-> last'.link,
                show |-> TRUE, endorsers |-> <<a>>]
        /\ \A g \in DOMAIN claim_details : claim_details'[g] = claim_details[g]
        /\ claim_hashes' = Append(claim_hashes, f)
        /\ IndexAfter(t, a) = Append(Index(t, a), f)
        /\ \A t2 \in ClaimTypes : \A a2 \in Indexed(t2) :
               <<t2, a2>> # <<t, a>> => IndexAfter(t2, a2) = Index(t2, a2)
        /\ claim_counter' = claim_counter + 1

\* A claim message whose claim id is not stored, from a caller whose index for
\* that claimtype is below capacity.
FreshClaimStep ==
    /\ last'.op \in ClaimOps
    /\ last'.claim_id \notin DOMAIN claim_details
    /\ Len(Index(TypeOf(last'.op), last'.caller)) <= MaxAccountClaims

RepeatedKeywordStep ==
    /\ last'.op \in KeywordOps
    /\ Submitted(last'.caller, last'.claim)

\* No index list, nor the ledger, nor the counter changes.
SizesUnchanged ==
    /\ Len(claim_hashes') = Len(claim_hashes)
    /\ claim_counter' = claim_counter
    /\ \A t \in ClaimTypes : \A a \in Indexed(t) :
           Len(IndexAfter(t, a)) = Len(Index(t, a))

\* C2, as stated: the repeated submission returns DuplicateClaim and changes
\* no index size, nor the ledger size, nor claim_counter.
C2_AlwaysDuplicateClaim ==
    [][RepeatedKeywordStep =>
          last'.result = "DuplicateClaim" /\ SizesUnchanged]_vars

\* C2, amended: the repeated submission changes none of these sizes and
\* returns DuplicateClaim, except that it returns DataTooLarge when the
\* caller's index for the category it is sent to is already full.
C2_DuplicateOrFull ==
    [][RepeatedKeywordStep =>
          /\ SizesUnchanged
          /\ last'.result =
                IF Len(Index(TypeOf(last'.op), last'.caller)) > MaxAccountClaims
                THEN "DataTooLarge" ELSE "DuplicateClaim"]_vars

\* The keywords account 1 filed under expertise are refused under another
\* keyword category.
C2_Witness ==
    /\ last.op \in KeywordOps \ {"make_claim_expertise"}
    /\ last.result = "DuplicateClaim"
    /\ Submitted(last.caller, last.claim)

NoRepeat(seq) == \A i, j \in 1..Len(seq) : seq[i] = seq[j] => i = j

\* C3: each claim id occurs at most once in claim_hashes and at most once
\* across all the index lists of all accounts and claimtypes.
C3_NoSharedFingerprint ==
    /\ NoRepeat(claim_hashes)
    /\ \A t \in ClaimTypes : \A a \in DOMAIN account_claims[t] :
          /\ NoRepeat(Index(t, a))
          /\ \A t2 \in ClaimTypes : \A a2 \in DOMAIN account_claims[t2] :
                <<t, a>> # <<t2, a2>> =>
                    Range(Index(t, a)) \cap Range(Index(t2, a2)) = {}

\* An intellectual property claim filed under a supplied hash stands next to
\* a keyword claim, and a later claim under one of their ids was refused.
C3_Witness ==
    /\ \E f, g \in DOMAIN claim_details :
          /\ claim_details[f].claimtype = IntellectualProperty
          /\ claim_details[g].claimtype \in KeywordTypes
    /\ Len(claim_hashes) = 2
    /\ last.result = "DuplicateClaim"

\* A keyword claim message from an account that holds no claim, with keywords
\* another account has an accepted keyword claim for.
SecondCallerStep ==
    /\ last'.op \in KeywordOps
    /\ \A f \in DOMAIN claim_details : claim_details[f].claimant # last'.caller
    /\ Len(Index(TypeOf(last'.op), last'.caller)) <= MaxAccountClaims
    /\ \E a \in Callers \ {last'.caller} : Submitted(a, last'.claim)

\* C4, as stated: the second caller's submission succeeds under an id that
\* differs from the first caller's.
C4_BothCallersSucceed ==
    [][SecondCallerStep =>
          /\ last'.result = "Ok"
          /\ last'.claim_id \in DOMAIN claim_details'
          /\ \A f \in DOMAIN claim_details : f # last'.claim_id]_vars

\* C5: a stored record stays stored, and its claimtype, claimant, claim and
\* link never change, whatever message runs.
C5_RecordPermanent ==
    [][\A f \in DOMAIN claim_details :
          /\ f \in DOMAIN claim_details'
          /\ claim_details'[f].claimtype = claim_details[f].claimtype
          /\ claim_details'[f].claimant = claim_details[f].claimant
          /\ claim_details'[f].claim = claim_details[f].claim
          /\ claim_details'[f].link = claim_details[f].link]_vars

\* A record that was endorsed and then hidden by its claimant.
C5_Witness ==
    /\ last.op = "show_or_hide_claim"
    /\ last.result = "Ok"
    /\ \E f \in DOMAIN claim_details :
          /\ f = last.claim_id
          /\ ~claim_details[f].show
          /\ claim_details[f].endorser_count = 1
          /\ claim_details[f].link # <<>>

\* C10, as stated: endorser_count equals the length of the endorser list.
C10_CountIsLength ==
    \A f \in DOMAIN claim_details :
        claim_details[f].endorser_count = Len(claim_details[f].endorsers)

\* C10, amended: in every record a claim message created, the endorser list
\* is one longer than endorser_count, its first entry being the claimant,
\* whom the count leaves out.
C10_CountIsLengthLessOne ==
    \A f \in DOMAIN claim_details :
        claim_details[f].claimtype \in ClaimTypes =>
            /\ Len(claim_details[f].endorsers) = claim_details[f].endorser_count + 1
            /\ claim_details[f].endorsers[1] = claim_details[f].claimant

\* A record with one endorsement next to a record with none.
C10_Witness ==
    \E f, g \in DOMAIN claim_details :
        /\ claim_details[f].endorser_count = 1
        /\ claim_details[g].endorser_count = 0

\* What an endorsement that is taken into the record leaves behind: the
\* caller at the end of the record's endorsers, the count one higher, the
\* rest of the record and every other record as they were, and one more
\* event, (claimant, claim id, caller).
EndorsementRecorded ==
    LET f == last'.claim_id
        old == claim_details[f]
    IN  /\ last'.result = "Ok"
        /\ claim_details' =
              [claim_details EXCEPT ![f] =
                  [old EXCEPT !.endorsers = Append(old.endorsers, last'.caller),
                              !.endorser_count = old.endorser_count + 1]]
        /\ events' = Append(events, ClaimEndorsed(old.claimant, f, last'.caller))
        /\ UNCHANGED <<claim_hashes, account_claims, claim_counter,
                       contract_balance, transfers>>

\* An endorse_claim message for a stored claim from an account that is not
\* among its endorsers, the list being shorter than n.
NewEndorserStep(n) ==
    /\ last'.op = "endorse_claim"
    /\ last'.claim_id \in DOMAIN claim_details
    /\ last'.caller \notin Range(claim_details[last'.claim_id].endorsers)
    /\ Len(claim_details[last'.claim_id].endorsers) < n

SecondEndorsementStep ==
    /\ last'.op = "endorse_claim"
    /\ last'.claim_id \in DOMAIN claim_details
    /\ \E i \in 1..Len(events) :
          events[i] = ClaimEndorsed(claim_details[last'.claim_id].claimant,
                                    last'.claim_id, last'.caller)

\* C8, as stated: the second endorsement returns DuplicateEndorsement and
\* leaves the records and the event log as they were.
C8_SecondEndorsementRefused ==
    [][SecondEndorsementStep =>
          /\ last'.result = "DuplicateEndorsement"
          /\ UNCHANGED storage]_vars

\* C9: every record of each of the five claimtypes has an endorser_count
\* that is the number of its endorsers other than the claimant, which is the
\* length of the list less one.
C9_CountsNonClaimants ==
    \A f \in DOMAIN claim_details :
        LET d == claim_details[f]
        IN  d.claimtype \in ClaimTypes =>
            /\ d.endorser_count =
                  Cardinality({i \in 1..Len(d.endorsers) : d.endorsers[i] # d.claimant})
            /\ d.endorser_count = Len(d.endorsers) - 1

\* A full record, 489 endorsements counted, after an endorsement that was
\* acknowledged without being stored.
C9_Witness ==
    /\ last.op = "endorse_claim"
    /\ last.result = "Ok"
    /\ \E f \in DOMAIN claim_details :
          /\ claim_details[f].endorser_count = MaxEndorsers - 1
          /\ last.caller \notin Range(claim_details[f].endorsers)

\* One list continues the other: the same entries in the same places, and
\* possibly more after them.
IsPrefix(short, long) ==
    /\ Len(short) <= Len(long)
    /\ SubSeq(long, 1, Len(short)) = short

\* No entry occurs twice in the list.
Distinct(seq) == Cardinality(Range(seq)) = Len(seq)

C12_FullListStillAcknowledged ==
    [][(/\ last'.op = "endorse_claim"
        /\ last'.claim_id \in DOMAIN claim_details
        /\ last'.caller \notin Range(claim_details[last'.claim_id].endorsers)
        /\ Len(claim_details[last'.claim_id].endorsers) >= MaxEndorsers) =>
           /\ last'.result = "Ok"
           /\ events' = Append(events,
                  ClaimEndorsed(claim_details[last'.claim_id].claimant,
                                last'.claim_id, last'.caller))
           /\ claim_details' = claim_details
           /\ UNCHANGED <<claim_hashes, account_claims, claim_counter>>]_vars

\* Two endorsements were acknowledged after the list was full: the log holds
\* two more events than the record counts endorsements.
C12_Witness ==
    /\ last.op = "endorse_claim"
    /\ last.result = "Ok"
    /\ last.claim_id \in DOMAIN claim_details
    /\ Len(claim_details[last.claim_id].endorsers) = MaxEndorsers
    /\ claim_details[last.claim_id].endorser_count = MaxEndorsers - 1
    /\ Len(events) = MaxEndorsers + 2

\* C13: show_or_hide_claim from an account that is not the claimant of the
\* record under the claim id returns CallerNotOwner and changes nothing,
\* whichever value of set_to_show it carries.
C13_OnlyClaimantSetsVisibility ==
    [][(/\ last'.op = "show_or_hide_claim"
        /\ last'.caller # get_details(claim_details, last'.claim_id).claimant) =>
           /\ last'.result = "CallerNotOwner"
           /\ UNCHANGED storage]_vars

\* Another account asked to hide a stored claim; it is still shown.
C13_Witness ==
    /\ last.op = "show_or_hide_claim"
    /\ last.result = "CallerNotOwner"
    /\ last.args[1] = 0
    /\ last.claim_id \in DOMAIN claim_details
    /\ claim_details[last.claim_id].show
    /\ claim_details[last.claim_id].claimant # last.caller

\* show_or_hide_claim for a stored claim, sent by its claimant.
ClaimantVisibilityStep ==
    /\ last'.op = "show_or_hide_claim"
    /\ last'.claim_id \in DOMAIN claim_details
    /\ claim_details[last'.claim_id].claimant = last'.caller

\* C14: show_or_hide_claim sent by the claimant of a stored claim returns Ok
\* and sets the record's show flag to the value asked for; nothing else of
\* the record, no other record, no index, not the ledger, no reward setting
\* changes and no event is emitted; sent again with the same value it
\* changes nothing at all.
C14_VisibilityOnly ==
    [][ClaimantVisibilityStep =>
          /\ last'.result = "Ok"
          /\ claim_details' =
                [claim_details EXCEPT ![last'.claim_id].show = (last'.args[1] = 1)]
          /\ UNCHANGED <<claim_hashes, account_claims, reward_root_set,
                         reward_root, reward_interval, reward_amount, reward_on,
                         reward_balance, reward_payouts, claim_counter,
                         contract_balance, events, transfers>>
          /\ (/\ last.op = "show_or_hide_claim"
              /\ last.result = "Ok"
              /\ last.claim_id = last'.claim_id
              /\ last.args = last'.args) => UNCHANGED storage]_vars

\* A claimant's request hid the claim; it was the third message, after the
\* claim itself and one message that emitted no event.
C14_Witness ==
    /\ last.op = "show_or_hide_claim"
    /\ last.result = "Ok"
    /\ last.args[1] = 0
    /\ calls = 3
    /\ Len(claim_hashes) = 1
    /\ Len(events) = 1
    /\ ~claim_details[last.claim_id].show

\* The reward conditions as a claim message meets them: the program is on,
\* holds more than one reward, the contract's account holds more than the
\* reward and the reserved 10, and the counter this claim advances to is a
\* multiple of the interval.
RewardDue ==
    /\ reward_on = 1
    /\ reward_balance > reward_amount
    /\ contract_balance > reward_amount + ReservedFloor
    /\ reward_interval # 0
    /\ (claim_counter + 1) % reward_interval = 0

\* The claim-made event of the message just accepted.
ClaimMadeEvent ==
    ClaimMade(TypeOf(last'.op), last'.caller, last'.claim, last'.claim_id)

\* C15: every accepted claim message advances claim_counter by one, and pays
\* a reward exactly when the reward conditions hold; a payout transfers
\* reward_amount to the caller, takes it from reward_balance, adds it to
\* reward_payouts and emits the reward event after the claim-made event;
\* without a payout nothing is transferred, reward_balance and reward_payouts
\* stay, and only the claim-made event is emitted.
C15_PaidExactlyWhenDue ==
    [][(last'.op \in ClaimOps /\ last'.result = "Ok") =>
          /\ claim_counter' = claim_counter + 1
          /\ RewardDue =>
                /\ transfers' = Append(transfers,
                       [to |-> last'.caller, value |-> reward_amount])
                /\ contract_balance' = contract_balance - reward_amount
                /\ reward_balance' = reward_balance - reward_amount
                /\ reward_payouts' = reward_payouts + reward_amount
                /\ events' = events \o
                       <<ClaimMadeEvent,
                         AccountRewardedLifeAndWork(last'.caller, reward_amount)>>
          /\ ~RewardDue =>
                /\ events' = Append(events, ClaimMadeEvent)
                /\ UNCHANGED <<transfers, contract_balance, reward_balance,
                               reward_payouts>>]_vars

\* With a reward on every second claim, the second claim was paid and the
\* third was not.
C15_Witness ==
    /\ last.op \in ClaimOps
    /\ last.result = "Ok"
    /\ reward_interval = 2
    /\ claim_counter = 3
    /\ Len(transfers) = 1
    /\ reward_payouts = reward_amount
    /\ Len(events) = 4

\* The claims accepted since the program was switched on, after the step.
AcceptedSinceOn ==
    claim_counter' - (IF EarlyClaim \in DOMAIN claim_details THEN 1 ELSE 0)

\* The step paid a reward.
Paid == Len(transfers') = Len(transfers) + 1

\* An accepted claim message, sent while the program is on with interval 5.
IntervalClaimStep ==
    /\ last'.op \in ClaimOps
    /\ last'.result = "Ok"
    /\ reward_on = 1
    /\ reward_interval = 5

\* C16, as stated: of the claims accepted after the program is on with
\* interval 5 and funds, the 5th is paid and the first four are not.
C16_FifthClaimPaid ==
    [][(IntervalClaimStep /\ AcceptedSinceOn <= 5) =>
          (Paid <=> AcceptedSinceOn = 5)]_vars

\* C16, amended: the claim that is paid is the one that brings claim_counter,
\* the number of claims accepted since the contract was created, to a
\* multiple of 5; so of any five claims accepted in a row exactly one is
\* paid, and it is the 5th (with none of the first four paid) when
\* claim_counter was a multiple of 5 before them.
C16_EveryFifthSinceCreation ==
    [][/\ IntervalClaimStep => (Paid <=> claim_counter' % 5 = 0)
       /\ reward_on' = 1 => Len(transfers') = claim_counter' \div 5
       /\ (IntervalClaimStep /\ ~(EarlyClaim \in DOMAIN claim_details)) =>
             (Paid <=> AcceptedSinceOn = 5)]_vars

\* Five claims of several kinds from both accounts, all filed with the
\* program on; the fifth was paid, to the account that filed it.
C16_Witness ==
    /\ last.op \in ClaimOps
    /\ last.result = "Ok"
    /\ claim_counter = 5
    /\ ~(EarlyClaim \in DOMAIN claim_details)
    /\ transfers = <<[to |-> last.caller, value |-> 3]>>
    /\ \E f, g \in DOMAIN claim_details :
          /\ claim_details[f].claimtype = IntellectualProperty
          /\ claim_details[g].claimtype \in KeywordTypes
          /\ claim_details[f].claimant # claim_details[g].claimant

\* C17: with reward_interval = 0 a claim message whose claim id is new, from a
\* caller below capacity, is accepted with the effects of any accepted claim
\* (claim_counter one higher among them), pays nothing and leaves
\* reward_balance and reward_payouts as they were, whatever the other reward
\* settings and funds are.
C17_ZeroIntervalNeverPays ==
    [][(FreshClaimStep /\ reward_interval = 0) =>
          /\ ClaimAccepted
          /\ events' = Append(events, ClaimMadeEvent)
          /\ UNCHANGED <<reward_balance, reward_payouts, transfers,
                         contract_balance>>]_vars

\* Three claims were accepted with the program on, funded, the interval zero
\* and the contract's account well above the reward: none was paid.
C17_Witness ==
    /\ last.op \in ClaimOps
    /\ last.result = "Ok"
    /\ reward_on = 1
    /\ reward_interval = 0
    /\ claim_counter = 3
    /\ transfers = <<>>
    /\ reward_payouts = 0
    /\ contract_balance > reward_balance

\* C18: a claim message that returns PayoutFailed leaves nothing behind: no
\* record under its claim id, the id neither in claim_hashes nor in the
\* caller's index, claim_counter, reward_balance and reward_payouts as
\* before, no event and no transfer.
C18_PayoutFailedLeavesNothing ==
    [][(last'.op \in ClaimOps /\ last'.result = "PayoutFailed") =>
          /\ last'.claim_id \notin DOMAIN claim_details'
          /\ last'.claim_id \notin Range(claim_hashes')
          /\ last'.claim_id \notin Range(IndexAfter(TypeOf(last'.op), last'.caller))
          /\ UNCHANGED <<claim_counter, reward_balance, reward_payouts>>
          /\ UNCHANGED <<events, transfers, contract_balance>>
          /\ UNCHANGED storage]_vars

\* After one paid claim, a second claim's reward transfer was refused: one
\* record, one payout, and the refused claim nowhere.
C18_Witness ==
    /\ last.op \in ClaimOps
    /\ last.result = "PayoutFailed"
    /\ claim_counter = 1
    /\ Len(transfers) = 1
    /\ Len(claim_hashes) = 1
    /\ last.claim_id \notin DOMAIN claim_details

\* The storage a reward message does not write: the claims.
claim_storage == <<claim_hashes, claim_details, account_claims, events, transfers>>

\* C19: while reward_root_set is 0, set_reward_roots from any account returns
\* Ok, makes its argument the root and sets reward_root_set to 1; once
\* reward_root_set is 1 it stays 1, and set_reward_roots returns Ok (and makes
\* its argument the root) only for the current root, PermissionDenied with
\* nothing changed for every other account; no other message changes the
\* root.
C19_RootTakenOnce ==
    [][/\ last'.op = "set_reward_roots" =>
             IF reward_root_set = 0 \/ reward_root = last'.caller
             THEN /\ last'.result = "Ok"
                  /\ reward_root' = last'.args[1]
                  /\ reward_root_set' = 1
                  /\ UNCHANGED <<reward_interval, reward_amount, reward_on,
                                 reward_balance, reward_payouts, claim_counter,
                                 contract_balance, claim_storage>>
             ELSE /\ last'.result = "PermissionDenied"
                  /\ UNCHANGED storage
       /\ reward_root_set = 1 => reward_root_set' = 1
       /\ reward_root_set' \in {0, 1}
       /\ last'.op # "set_reward_roots" =>
             UNCHANGED <<reward_root, reward_root_set>>]_vars

\* With the root set for the other account, an account asked for the root
\* for itself and was refused.
C19_Witness ==
    /\ last.op = "set_reward_roots"
    /\ last.result = "PermissionDenied"
    /\ last.args[1] = last.caller
    /\ reward_root_set = 1
    /\ reward_root # last.caller
    /\ calls = 3

\* C20: set_reward from the current root returns Ok and sets reward_on,
\* reward_interval and reward_amount to its arguments, and nothing else;
\* add_reward_balance from the current root returns Ok and adds the
\* transferred value to reward_balance (the contract's account having
\* received it), and nothing else; from any other account each returns
\* PermissionDenied and changes nothing.
C20_RootOnlySettings ==
    [][/\ last'.op = "set_reward" =>
             IF reward_root = last'.caller
             THEN /\ last'.result = "Ok"
                  /\ reward_on' = last'.args[1]
                  /\ reward_interval' = last'.args[2]
                  /\ reward_amount' = last'.args[3]
                  /\ UNCHANGED <<reward_root, reward_root_set, reward_balance,
                                 reward_payouts, claim_counter, contract_balance,
                                 claim_storage>>
             ELSE /\ last'.result = "PermissionDenied"
                  /\ UNCHANGED storage
       /\ last'.op = "add_reward_balance" =>
             IF reward_root = last'.caller
             THEN /\ last'.result = "Ok"
                  /\ reward_balance' = reward_balance + last'.args[1]
                  /\ contract_balance' = contract_balance + last'.args[1]
                  /\ UNCHANGED <<reward_root, reward_root_set, reward_on,
                                 reward_interval, reward_amount, reward_payouts,
                                 claim_counter, claim_storage>>
             ELSE /\ last'.result = "PermissionDenied"
                  /\ UNCHANGED storage]_vars

\* The root configured the program; the other account then tried to fund it
\* and was refused, its payment not kept.
C20_Witness ==
    /\ last.op = "add_reward_balance"
    /\ last.result = "PermissionDenied"
    /\ reward_root_set = 1
    /\ reward_root # last.caller
    /\ reward_on = 1
    /\ reward_balance = 0
    /\ contract_balance = 0

\* What shut_down_reward refunds: reward_balance less the reserved 10.
Refund == saturating_sub(reward_balance, ReservedFloor)

\* C21: shut_down_reward returns PermissionDenied to an account that is not
\* the root; sent by the root with no more than 10 on the contract's account,
\* or with reward_balance 0, it returns ZeroBalance; otherwise it returns Ok
\* or, when the transfer is refused, PayoutFailed; returning Ok it has set
\* reward_on to 0 and transferred reward_balance - 10 to the root.  While
\* reward_on is 0 no claim message pays a reward, and only set_reward sent by
\* the root sets it to 1 again.
C21_ShutDownRefundsRoot ==
    [][/\ last'.op = "shut_down_reward" =>
             /\ last'.caller # reward_root => last'.result = "PermissionDenied"
             /\ (/\ last'.caller = reward_root
                 /\ ~(contract_balance > ReservedFloor /\ reward_balance > 0)) =>
                    last'.result = "ZeroBalance"
             /\ (/\ last'.caller = reward_root
                 /\ contract_balance > ReservedFloor
                 /\ reward_balance > 0) =>
                    last'.result \in {"Ok", "PayoutFailed"}
             /\ last'.result = "Ok" =>
                    /\ reward_on' = 0
                    /\ transfers' = Append(transfers,
                           [to |-> reward_root, value |-> Refund])
                    /\ contract_balance' = contract_balance - Refund
                    /\ UNCHANGED <<reward_root, reward_root_set, reward_interval,
                                   reward_amount, claim_counter, claim_hashes,
                                   claim_details, account_claims, events>>
       /\ (last'.op \in ClaimOps /\ reward_on = 0) =>
             UNCHANGED <<transfers, contract_balance, reward_balance, reward_payouts>>
       /\ (reward_on = 0 /\ reward_on' # 0) =>
             /\ last'.op = "set_reward"
             /\ last'.caller = reward_root
             /\ last'.result = "Ok"]_vars

\* The root shut the funded program down and was refunded 10 of the 20; a
\* claim accepted afterwards was not paid.
C21_Witness ==
    /\ last.op \in ClaimOps
    /\ last.result = "Ok"
    /\ reward_on = 0
    /\ transfers = <<[to |-> 1, value |-> 10]>>
    /\ contract_balance = 10
    /\ reward_root = 1
\* ------------------------------------------------------------------- C22
\* The accounts that ask for the settings: the callers and the zero account.
Readers == Callers \cup {ZeroAccount}

\* C22: get_reward_settings answers an account that is not reward_root with
\* the default settings, whatever the configuration is, and answers
\* reward_root with the current value of every one of the eight fields.
C22_SettingsOnlyForRoot ==
    \A caller \in Readers :
        /\ caller # reward_root =>
               get_reward_settings(Self, caller) = DefaultRewardSettings
        /\ caller = reward_root =>
               /\ get_reward_settings(Self, caller).reward_on = reward_on
               /\ get_reward_settings(Self, caller).reward_root_set = reward_root_set
               /\ get_reward_settings(Self, caller).reward_root = reward_root
               /\ get_reward_settings(Self, caller).reward_interval = reward_interval
               /\ get_reward_settings(Self, caller).reward_amount = reward_amount
               /\ get_reward_settings(Self, caller).reward_balance = reward_balance
               /\ get_reward_settings(Self, caller).reward_payouts = reward_payouts
               /\ get_reward_settings(Self, caller).claim_counter = claim_counter
               /\ DOMAIN get_reward_settings(Self, caller) = DOMAIN DefaultRewardSettings

\* Account 1 is the root of a program that is on and funded: account 2 reads
\* the default, account 1 the configuration.
C22_Witness ==
    /\ reward_root = 1 /\ reward_root_set = 1 /\ reward_on = 1
    /\ reward_amount = 3 /\ reward_balance = 20
    /\ get_reward_settings(Self, 2) = DefaultRewardSettings
    /\ get_reward_settings(Self, 1).reward_balance = 20
    /\ get_reward_settings(Self, 1) # DefaultRewardSettings

\* ------------------------------------------------------------------- C23
\* The place of a claim id in the ledger (0 when it is not there).
LedgerPosition(f) ==
    IF \E i \in 1..Len(claim_hashes) : claim_hashes[i] = f
    THEN CHOOSE i \in 1..Len(claim_hashes) : claim_hashes[i] = f
    ELSE 0

\* The ledger's claims of one account under one claimtype.
ClaimsOf(owner, t) ==
    {f \in Range(claim_hashes) :
        /\ get_details(claim_details, f).claimant = owner
        /\ get_details(claim_details, f).claimtype = t}

\* C23: get_resume(owner) lists the stored records of the owner's claims,
\* work history first, then education, expertise, good deeds and intellectual
\* property, each claimtype in the order the claims were accepted; it is as
\* long as the five counts of verify_account(owner) together, and every
\* record in it has the owner as claimant.
C23_ResumeInCategoryOrder ==
    \A owner \in Readers :
        LET resume == get_resume(Self, owner)
            counts == verify_account(Self, owner)
        IN  /\ Len(resume) = counts[1] + counts[2] + counts[3] + counts[4] + counts[5]
            /\ counts[1] = Cardinality(ClaimsOf(owner, WorkHistory))
            /\ counts[2] = Cardinality(ClaimsOf(owner, Education))
            /\ counts[3] = Cardinality(ClaimsOf(owner, Expertise))
            /\ counts[4] = Cardinality(ClaimsOf(owner, GoodDeed))
            /\ counts[5] = Cardinality(ClaimsOf(owner, IntellectualProperty))
            /\ \A i \in 1..Len(resume) :
                   /\ resume[i].claimant = owner
                   /\ resume[i].claimtype \in ClaimTypes
                   /\ resume[i].claim_id \in ClaimsOf(owner, resume[i].claimtype)
                   /\ resume[i] = claim_details[resume[i].claim_id]
            /\ \A i, j \in 1..Len(resume) :
                   i < j =>
                       /\ resume[i].claimtype <= resume[j].claimtype
                       /\ resume[i].claimtype = resume[j].claimtype =>
                              LedgerPosition(resume[i].claim_id)
                                  < LedgerPosition(resume[j].claim_id)

\* Account 1 filed an intellectual property claim and then two expertise
\* claims: the resume lists the two expertise claims in the order they were
\* filed and the intellectual property claim after them.
C23_Witness ==
    /\ Len(claim_hashes) = 3
    /\ claim_details[claim_hashes[1]].claimtype = IntellectualProperty
    /\ claim_details[claim_hashes[2]].claimtype = Expertise
    /\ claim_details[claim_hashes[3]].claimtype = Expertise
    /\ get_resume(Self, 1) = <<claim_details[claim_hashes[2]],
                               claim_details[claim_hashes[3]],
                               claim_details[claim_hashes[1]]>>
    /\ verify_account(Self, 1) = <<0, 0, 2, 0, 1>>

\* ------------------------------------------------------------------- C24
\* The searches: the empty one, text that occurs, text that does not, the
\* letter b in lower case, and bytes that are not UTF-8 on their own.
Queries ==
    {<<>>, <<66>>, <<82>>, <<98>>, <<80>>, <<66, 82>>, <<82, 66>>,
     <<195, 169>>, <<255>>, <<169>>, <<66, 255>>}

\* Of the keywords and searches above, the ones that are not UTF-8: 255 is no
\* byte of any UTF-8 text and 169 only continues a longer form.
Malformed == {<<255>>, <<169>>, <<66, 255>>}
Text(bytes) == IF bytes \in Malformed THEN <<>> ELSE bytes

\* q occurs in c as a contiguous run of equal bytes.
Occurs(q, c) ==
    \E start \in 1..(Len(c) + 1) :
        /\ start + Len(q) - 1 <= Len(c)
        /\ \A k \in 1..Len(q) : c[start + k - 1] = q[k]

LedgerRecord(i) == get_details(claim_details, claim_hashes[i])

\* The ledger positions whose keywords, as text, hold the search as text.
TextMatches(q) ==
    {i \in 1..Len(claim_hashes) : Occurs(Text(q), Text(LedgerRecord(i).claim))}

\* The ledger positions whose keywords hold the bytes of the search.
ByteMatches(q) ==
    {i \in 1..Len(claim_hashes) : Occurs(q, LedgerRecord(i).claim)}

\* The result is the records at these ledger positions, in ledger order, each
\* once.
IsSelection(result, positions) ==
    /\ Len(result) = Cardinality(positions)
    /\ \A i \in positions :
           result[Cardinality({j \in positions : j <= i})] = LedgerRecord(i)

\* C24 (as stated): get_matching_claims(q) returns exactly the ledger's
\* records whose keywords contain the bytes of q as a contiguous,
\* case-sensitive run, in ledger order, each once.
C24_MatchesBytes ==
    \A q \in Queries : IsSelection(get_matching_claims(Self, q), ByteMatches(q))

\* C24 (amended): get_matching_claims(q) returns exactly the ledger's records
\* whose keywords, read as UTF-8 text, contain q read as UTF-8 text as a
\* contiguous, case-sensitive run, in ledger order, each once; keywords or a
\* search that are not UTF-8 are read as the empty text, so such a search
\* returns every record and such keywords match only the empty text.
C24_MatchesDecodedText ==
    \A q \in Queries : IsSelection(get_matching_claims(Self, q), TextMatches(q))

\* A ledger of "BR", "P" and the keywords that are not UTF-8: the search "B"
\* returns the first record only, the search "b" none, and the search 255
\* all three.
C24_Witness ==
    /\ Len(claim_hashes) = 3
    /\ LedgerRecord(1).claim = <<66, 82>>
    /\ LedgerRecord(2).claim = <<80>>
    /\ LedgerRecord(3).claim = <<66, 255>>
    /\ get_matching_claims(Self, <<66>>) = <<LedgerRecord(1)>>
    /\ get_matching_claims(Self, <<98>>) = <<>>
    /\ get_matching_claims(Self, <<255>>) =
           <<LedgerRecord(1), LedgerRecord(2), LedgerRecord(3)>>

\* ------------------------------------------------------------------- C25
\* C25: get_full_details(f) returns the stored record of an id that has one
\* and the default record, whose claimtype is 0, of an id that has none; every
\* stored record has a claimtype from 1 to 5, so that a stored record is never
\* taken for the default.
C25_StoredRecordsAreTagged ==
    /\ DefaultDetails.claimtype = 0
    /\ \A f \in ZeroHashes :
           IF f \in DOMAIN claim_details
           THEN /\ get_full_details(Self, f) = claim_details[f]
                /\ get_full_details(Self, f).claimtype \in ClaimTypes
           ELSE get_full_details(Self, f) = DefaultDetails

\* ------------------------------------------------------------------- C29
\* C29: in every reachable state claim_counter is the length of the ledger,
\* which is the number of stored records: the ids of the ledger are the ids
\* that have a record.
C29_CounterLedgerStoreAgree ==
    /\ claim_counter = Len(claim_hashes)
    /\ Len(claim_hashes) = Cardinality(DOMAIN claim_details)
    /\ Range(claim_hashes) = DOMAIN claim_details

\* ------------------------------------------------------------------- C26
\* C26: in every step the ledger only grows at its end (the ledger before the
\* step is a prefix of the ledger after it), every account's index list of
\* every claimtype likewise, and claim_counter does not decrease.
C26_AppendOnly ==
    [][/\ IsPrefix(claim_hashes, claim_hashes')
       /\ \A t \in ClaimTypes : \A a \in Indexed(t) :
              IsPrefix(Index(t, a), IndexAfter(t, a))
       /\ claim_counter' >= claim_counter]_vars

\* Three claims were accepted, two of them expertise claims of account 1.
C26_Witness ==
    /\ Len(claim_hashes) = 3
    /\ Len(Index(Expertise, 1)) = 2
    /\ claim_counter = 3
    /\ last.op \in ClaimOps /\ last.result = "Ok"

\* ------------------------------------------------------------------- C27
\* The messages that file no claim, and the errors each of them returns.
OtherOps ==
    {"endorse_claim", "show_or_hide_claim", "set_reward_roots", "set_reward",
     "add_reward_balance", "shut_down_reward"}

ErrorsOf(op) ==
    CASE op = "endorse_claim" -> {"NonexistentClaim", "DuplicateEndorsement"}
      [] op = "show_or_hide_claim" -> {"CallerNotOwner"}
      [] op = "shut_down_reward" -> {"PermissionDenied", "ZeroBalance", "PayoutFailed"}
      [] OTHER -> {"PermissionDenied"}

\* C27: an endorse_claim, show_or_hide_claim, set_reward_roots, set_reward,
\* add_reward_balance or shut_down_reward that returns an error (for
\* endorse_claim of an id without record, NonexistentClaim) leaves the
\* records, the index lists, the ledger, the reward settings and the events
\* as they were; a shut_down_reward that returns ZeroBalance or PayoutFailed
\* leaves reward_on as it was.
C27_FailedCallChangesNothing ==
    [][last'.op \in OtherOps =>
           /\ last'.result \in {"Ok"} \cup ErrorsOf(last'.op)
           /\ (last'.op = "endorse_claim" /\ last'.claim_id \notin DOMAIN claim_details)
                  => last'.result = "NonexistentClaim"
           /\ last'.result # "Ok" =>
                  UNCHANGED <<claim_details, account_claims, claim_hashes,
                              reward_root_set, reward_root, reward_interval,
                              reward_amount, reward_on, reward_balance,
                              reward_payouts, claim_counter, events>>]_vars

\* The root's shut_down_reward has just failed because the transfer was
\* refused, and the program is still on.
C27_Witness ==
    /\ last.op = "shut_down_reward"
    /\ last.caller = reward_root
    /\ last.result = "PayoutFailed"
    /\ reward_on = 1

\* ------------------------------------------------------------------- C28
\* C28: a claim message sent by an account whose index for the message's
\* claimtype holds more than 490 claim ids returns DataTooLarge, also when
\* its claim id is already stored (it does not return DuplicateClaim there),
\* and this under each of the five claimtypes.
C28_CapacityFirst ==
    [][(/\ last'.op \in ClaimOps
        /\ Len(Index(TypeOf(last'.op), last'.caller)) > MaxAccountClaims) =>
           /\ last'.result = "DataTooLarge"
           /\ last'.result # "DuplicateClaim"
           /\ UNCHANGED claim_storage]_vars

\* Account 1, whose good deed index is full, has sent a good deed claim with
\* keywords it had filed before, and was answered DataTooLarge.
C28_Witness ==
    /\ last.op = "make_claim_gooddeed"
    /\ last.caller = 1
    /\ Len(Index(GoodDeed, 1)) > MaxAccountClaims
    /\ last.claim_id \in DOMAIN claim_details
    /\ last.result = "DataTooLarge"

\* ------------------------------------------------------------------- C30
\* The accounts that have an index list.
IndexedAccounts == UNION {DOMAIN account_claims[t] : t \in ClaimTypes}

\* The number of claims verify_account reports for the account.
Volume(a) ==
    verify_account(Self, a)[1] + verify_account(Self, a)[2]
    + verify_account(Self, a)[3] + verify_account(Self, a)[4]
    + verify_account(Self, a)[5]

RECURSIVE TotalVolume(_)
TotalVolume(accounts) ==
    IF accounts = {}
    THEN 0
    ELSE LET a == CHOOSE x \in accounts : TRUE
         IN  Volume(a) + TotalVolume(accounts \ {a})

\* C30: every claim id of the ledger is in exactly one index list, once: the
\* list of its record's claimant under its record's claimtype; every claim id
\* of an index list has a record; and the counts of verify_account, summed
\* over the five claimtypes and all accounts, are the length of the ledger.
C30_LedgerPartitionedByIndex ==
    /\ \A f \in Range(claim_hashes) :
           /\ f \in DOMAIN claim_details
           /\ \A t \in ClaimTypes : \A a \in Readers :
                  f \in Range(Index(t, a)) <=>
                      (t = claim_details[f].claimtype /\ a = claim_details[f].claimant)
           /\ Cardinality({k \in DOMAIN Index(get_details(claim_details, f).claimtype,
                                             get_details(claim_details, f).claimant) :
                             Index(get_details(claim_details, f).claimtype,
                                   get_details(claim_details, f).claimant)[k] = f}) = 1
    /\ IndexedAccounts \subseteq Readers
    /\ \A t \in ClaimTypes : \A a \in DOMAIN account_claims[t] :
           Range(Index(t, a)) \subseteq DOMAIN claim_details
    /\ TotalVolume(IndexedAccounts) = Len(claim_hashes)

\* Accounts 1 and 2 have filed three claims between them, under more than one
\* claimtype.
C30_Witness ==
    /\ Len(claim_hashes) = 3
    /\ IndexedAccounts = {1, 2}
    /\ Volume(1) = 2 /\ Volume(2) = 1
    /\ Cardinality({t \in ClaimTypes : account_claims[t] # <<>>}) >= 2

\* ------------------------------------------------------------------- C31
\* C31: a show_or_hide_claim of an id that has no record returns
\* CallerNotOwner, whichever account calls (the zero account too), and stores
\* no record; so a claim whose id was never filed is not refused with
\* DuplicateClaim because of an earlier show_or_hide_claim.
C31_UnknownIdNeverStored ==
    [][/\ (last'.op = "show_or_hide_claim" /\ last'.claim_id \notin DOMAIN claim_details) =>
              /\ last'.result = "CallerNotOwner"
              /\ claim_details' = claim_details
       /\ (/\ last'.op \in ClaimOps
           /\ last'.claim_id \notin Range(claim_hashes)
           /\ Len(Index(TypeOf(last'.op), last'.caller)) <= MaxAccountClaims) =>
              last'.result # "DuplicateClaim"]_vars

\* ------------------------------------------------------------------- C32
RECURSIVE Sent(_)
\* The value the contract has transferred out, over a list of transfers.
Sent(list) == IF list = <<>> THEN 0 ELSE Head(list).value + Sent(Tail(list))

RECURSIVE Rewarded(_)
\* The value of the rewards a list of events reports.
Rewarded(list) == IF list = <<>> THEN 0 ELSE Head(list).reward + Rewarded(Tail(list))

\* What shut_down_reward has transferred to the root: the transfers that are
\* not the reward of a claim.
Refunded == Sent(transfers) - Rewarded(events)

\* What add_reward_balance has been paid: the contract starts with nothing
\* and receives value through accepted add_reward_balance calls only, so it
\* is what the contract holds and what it has transferred out.
Credited == contract_balance + Sent(transfers)

\* C32: in every reachable state reward_payouts, the refunds of successful
\* shut_down_reward calls and reward_balance together are at most what
\* add_reward_balance was paid; so no funds are refunded twice and
\* reward_balance is at most the funds that remain for rewards.
C32_FundsConserved ==
    /\ reward_payouts + Refunded + reward_balance <= Credited
    /\ reward_balance <= contract_balance

\* ------------------------------------------------------------------- C33
\* The messages that are for the reward root only.
RootOps == {"set_reward", "add_reward_balance", "shut_down_reward"}

\* C33: while no root has been set (reward_root_set = 0), set_reward,
\* add_reward_balance and shut_down_reward return PermissionDenied to every
\* caller, and get_reward_settings returns the default settings to every
\* caller.
C33_NoRootBeforeSetRoot ==
    [][reward_root_set = 0 =>
           /\ last'.op \in RootOps => last'.result = "PermissionDenied"
           /\ \A caller \in Readers :
                  get_reward_settings(Self, caller) = DefaultRewardSettings]_vars

\* ------------------------------------------------------------------- C34
\* The account has no record with these keywords under any claimtype, and
\* none that it filed itself under the id its keyword claim would get.
NeverSubmitted(b, c) ==
    \A f \in DOMAIN claim_details :
        claim_details[f].claimant = b =>
            /\ claim_details[f].claim # c
            /\ f # hash_encoded(b, c)

\* C34: a keyword claim of an account that never submitted these keywords
\* under any claimtype, and whose index for the claimtype is below capacity,
\* is not refused with DuplicateClaim, whatever the other accounts did before
\* (intellectual property claims with ids of their choice included).
C34_OthersCannotBlock ==
    [][(/\ last'.op \in KeywordOps
        /\ NeverSubmitted(last'.caller, last'.claim)
        /\ Len(Index(TypeOf(last'.op), last'.caller)) <= MaxAccountClaims) =>
           last'.result # "DuplicateClaim"]_vars

====
